---- MODULE Spec2Model ----
(***************************************************************************)
(* A model of wandb/sdk_py27/interface/dtypes.py: the Type descriptors,    *)
(* the TypeRegistry, assign, to_json / from_json and equality.             *)
(*                                                                         *)
(* Python objects are tagged records: field k is the object's class.       *)
(*   None            [k |-> "NoneType"]                                    *)
(*   str / int / float / bool   fields s / n / n / b                       *)
(*   list, tuple, set, frozenset   field items (iteration order)           *)
(*   dict            field f, a function from its keys                     *)
(*   a Type          [k |-> "Type", name |-> cls.name, params |-> dict]    *)
(*   any other class [k |-> <class name>]                                  *)
(* A raised exception is the outcome [k |-> "raise", exc |-> <class>];     *)
(* every operator propagates it from the calls it makes.                   *)
(***************************************************************************)
EXTENDS Integers, Sequences, FiniteSets, TLC

VARIABLES cur, recv, arg, op, steps,
          job, isfile, pc, size, upload_url, pushed, success, raised,
          stats, done_queue

dvars == <<cur, recv, arg, op, steps>>

uvars == <<job, isfile, pc, size, upload_url, pushed, success, raised,
           stats, done_queue>>

vars == <<dvars, uvars>>

(***************************************************************************)
(* Bounds                                                                  *)
(***************************************************************************)
MaxSteps == 3

MaxLen == 2

(***************************************************************************)
(* Python objects                                                          *)
(***************************************************************************)
EmptyMap == [x \in {} |-> 0]

PyNone == [k |-> "NoneType"]

PyStr(s) == [k |-> "str", s |-> s]

PyInt(n) == [k |-> "int", n |-> n]

PyFloat(n) == [k |-> "float", n |-> n]

PyBool(b) == [k |-> "bool", b |-> b]

PyList(items) == [k |-> "list", items |-> items]

PyTuple(items) == [k |-> "tuple", items |-> items]

PySet(items) == [k |-> "set", items |-> items]

PyDict(f) == [k |-> "dict", f |-> f]

PyObj(cls) == [k |-> cls]

Raise(exc) == [k |-> "raise", exc |-> exc]

IsRaise(x) == x.k = "raise"

IsType(x) == x.k = "Type"

SeqClasses == {"list", "tuple", "set", "frozenset"}

Range(s) == {s[i] : i \in DOMAIN s}

\* the order in which a dict's keys are iterated
KeyIter == <<"a", "b", "c", "wb_type", "x", "allowed_types", "class_name",
             "element_type", "type_map", "policy", "val", "is_set", "params">>

KeysOf(d) == SelectSeq(KeyIter, LAMBDA key : key \in DOMAIN d.f)

\* x == y on Python objects that hold no Type: bool, int and float compare
\* by number, set and frozenset by their elements
RECURSIVE Canon(_)
Canon(x) ==
    IF x.k = "bool" THEN [k |-> "num", n |-> IF x.b THEN 1 ELSE 0]
    ELSE IF x.k \in {"int", "float"} THEN [k |-> "num", n |-> x.n]
    ELSE IF x.k \in {"set", "frozenset"}
        THEN [k |-> "anyset", elems |-> {Canon(e) : e \in Range(x.items)}]
    ELSE IF x.k \in {"list", "tuple"}
        THEN [k |-> x.k, items |-> [i \in DOMAIN x.items |-> Canon(x.items[i])]]
    ELSE IF x.k = "dict"
        THEN [k |-> "dict", f |-> [key \in DOMAIN x.f |-> Canon(x.f[key])]]
    ELSE x

PyEq(x, y) == Canon(x) = Canon(y)

(***************************************************************************)
(* Type: construction, serialization, repr, equality                       *)
(***************************************************************************)
TypeInit(name, params) ==
    [k |-> "Type", name |-> name,
     params |-> IF params = PyNone THEN PyDict(EmptyMap) ELSE params]

RECURSIVE ParamsObjToJsonObj(_)
RECURSIVE ToJson(_)
ParamsObjToJsonObj(p) ==
    IF p.k = "dict"
        THEN PyDict([key \in DOMAIN p.f |-> ParamsObjToJsonObj(p.f[key])])
    ELSE IF p.k = "list"
        THEN PyList([i \in DOMAIN p.items |-> ParamsObjToJsonObj(p.items[i])])
    ELSE IF IsType(p) THEN ToJson(p)
    ELSE p

ToJson(t) ==
    LET params == ParamsObjToJsonObj(t.params)
    IN  IF params = PyNone \/ PyEq(params, PyDict(EmptyMap))
        THEN PyDict([wb_type |-> PyStr(t.name)])
        ELSE PyDict([wb_type |-> PyStr(t.name), params |-> params])

TypeEq(a, b) ==
    a = b \/ (IsType(a) /\ IsType(b) /\ PyEq(ToJson(a), ToJson(b)))

NeverType == TypeInit("never", PyNone)

AnyType == TypeInit("any", PyNone)

UnknownType == TypeInit("unknown", PyNone)

NoneType == TypeInit("none", PyNone)

TextType == TypeInit("text", PyNone)

NumberType == TypeInit("number", PyNone)

BooleanType == TypeInit("boolean", PyNone)

\* repr(x), as the sequence of the character codes (or ranks of whole names,
\* keys and strings) on which two reprs can first differ
NameOrder == <<"any", "boolean", "const", "dictionary", "list", "never",
               "none", "number", "object", "text", "union", "unknown">>

KeyOrder == <<"a", "allowed_types", "b", "c", "class_name", "element_type",
              "is_set", "params", "policy", "type_map", "val", "wb_type", "x">>

StrOrder == <<"", "Bar", "E", "Foo", "NoneType", "S", "U", "a", "b", "bogus",
              "dictionary", "list", "text", "union">>

Rank(order, x) == CHOOSE i \in DOMAIN order : order[i] = x

RECURSIVE Repr(_)
RECURSIVE DictRepr(_, _, _)
RECURSIVE ItemsRepr(_, _)
DictRepr(d, keys, i) ==
    IF i > Len(keys) THEN <<>>
    ELSE <<39, Rank(KeyOrder, keys[i])>> \o Repr(d.f[keys[i]])
         \o <<IF i = Len(keys) THEN 125 ELSE 44>> \o DictRepr(d, keys, i + 1)

ItemsRepr(items, i) ==
    IF i > Len(items) THEN <<>>
    ELSE Repr(items[i]) \o <<IF i = Len(items) THEN 93 ELSE 44>>
         \o ItemsRepr(items, i + 1)

Repr(x) ==
    IF IsType(x) THEN <<60, Rank(NameOrder, x.name)>> \o Repr(x.params)
    ELSE IF x.k = "dict"
        THEN IF DOMAIN x.f = {} THEN <<123, 125>>
             ELSE <<123>> \o DictRepr(x, KeysOf(x), 1)
    ELSE IF x.k = "list"
        THEN IF Len(x.items) = 0 THEN <<91, 93>>
             ELSE <<91>> \o ItemsRepr(x.items, 1)
    ELSE IF x.k \in {"set", "frozenset"}
        THEN IF Len(x.items) = 0 THEN <<115, 93>>
             ELSE <<115>> \o ItemsRepr(x.items, 1)
    ELSE IF x.k = "str" THEN <<39, Rank(StrOrder, x.s)>>
    ELSE IF x.k = "int" THEN <<48 + x.n>>
    ELSE IF x.k = "float" THEN <<48 + x.n, 46>>
    ELSE IF x.k = "bool" THEN <<IF x.b THEN 84 ELSE 70>>
    ELSE IF x.k = "NoneType" THEN <<78>>
    ELSE <<60, 100 + Rank(StrOrder, x.k)>>

\* s < t on strings
LexLess(s, t) ==
    \E i \in 1..(Len(s) + 1) :
        /\ i <= Len(t)
        /\ \A j \in 1..(i - 1) : s[j] = t[j]
        /\ (i = Len(s) + 1 \/ s[i] < t[i])

\* list.sort(key=str): stable
InsertAt(sorted, pos, x) ==
    SubSeq(sorted, 1, pos - 1) \o <<x>> \o SubSeq(sorted, pos, Len(sorted))

\* x goes after the items of sorted that are not greater than it
InsertByStr(sorted, x) ==
    InsertAt(sorted,
             1 + Cardinality({j \in 1..Len(sorted) :
                                  ~LexLess(Repr(x), Repr(sorted[j]))}),
             x)

RECURSIVE SortFrom(_, _, _)
SortFrom(items, i, sorted) ==
    IF i > Len(items) THEN sorted
    ELSE SortFrom(items, i + 1, InsertByStr(sorted, items[i]))

\* allowed_types left in the order given
KeepOrder(items) == items

SortByStr(items) == SortFrom(items, 1, <<>>)

(***************************************************************************)
(* UnionType                                                               *)
(***************************************************************************)
\* allowed_types with the unions among them left as members
NoFlatten(allowed_types) == allowed_types

RECURSIVE FlattenTypes(_)
FlattenTypes(allowed_types) ==
    IF Len(allowed_types) = 0 THEN <<>>
    ELSE LET allowed_type == Head(allowed_types)
         IN  (IF allowed_type.k = "Type" /\ allowed_type.name = "union"
              THEN FlattenTypes(allowed_type.params.f.allowed_types.items)
              ELSE <<allowed_type>>) \o FlattenTypes(Tail(allowed_types))

AllTypes(items) == \A i \in DOMAIN items : IsType(items[i])

UnionInit(py_obj, params) ==
    IF py_obj = PyNone /\ params = PyNone THEN Raise("TypeError")
    ELSE IF ~(py_obj = PyNone \/ (py_obj.k = "list" /\ AllTypes(py_obj.items)))
        THEN Raise("AssertionError")
    ELSE IF ~(params = PyNone
              \/ (/\ params.k = "dict"
                  /\ ("allowed_types" \in DOMAIN params.f
                          => /\ params.f.allowed_types.k = "list"
                             /\ AllTypes(params.f.allowed_types.items))))
        THEN Raise("AssertionError")
    ELSE LET p == IF params = PyNone THEN PyDict([allowed_types |-> py_obj])
                  ELSE params
         IN  IF "allowed_types" \notin DOMAIN p.f THEN Raise("KeyError")
             ELSE TypeInit("union",
                      PyDict([key \in DOMAIN p.f |->
                          IF key = "allowed_types"
                          THEN PyList(SortByStr(FlattenTypes(p.f.allowed_types.items)))
                          ELSE p.f[key]]))

OptionalType(wb_type) == UnionInit(PyList(<<wb_type, NoneType>>), PyNone)

(***************************************************************************)
(* ObjectType and ConstType construction                                   *)
(***************************************************************************)
ObjectInit(py_obj, params) ==
    IF py_obj = PyNone /\ params = PyNone THEN Raise("TypeError")
    ELSE IF ~(params = PyNone
              \/ (/\ params.k = "dict"
                  /\ "class_name" \in DOMAIN params.f
                  /\ params.f.class_name.k = "str"
                  /\ params.f.class_name.s # ""))
        THEN Raise("AssertionError")
    ELSE TypeInit("object",
             IF params = PyNone
             THEN PyDict([class_name |-> PyStr(py_obj.k)])
             ELSE params)

ConstSupportedTypes == {"str", "int", "float", "bool", "set"}

\* bool(x) of a literal
Truthy(x) ==
    IF x.k = "NoneType" THEN FALSE
    ELSE IF x.k = "bool" THEN x.b
    ELSE IF x.k \in {"int", "float"} THEN x.n # 0
    ELSE IF x.k = "str" THEN x.s # ""
    ELSE IF x.k \in SeqClasses THEN Len(x.items) > 0
    ELSE IF x.k = "dict" THEN DOMAIN x.f # {}
    ELSE TRUE

ConstInit(py_obj, params) ==
    IF py_obj = PyNone /\ params = PyNone THEN Raise("TypeError")
    ELSE IF py_obj.k \notin ConstSupportedTypes THEN Raise("AssertionError")
    ELSE IF ~(params = PyNone
              \/ (/\ params.k = "dict"
                  /\ "val" \in DOMAIN params.f
                  /\ Truthy(params.f.val)))
        THEN Raise("AssertionError")
    ELSE IF params = PyNone
        THEN TypeInit("const",
                 IF py_obj.k = "set"
                 THEN PyDict([val |-> py_obj, is_set |-> PyBool(TRUE)])
                 ELSE PyDict([val |-> py_obj]))
    ELSE TypeInit("const",
             IF "is_set" \in DOMAIN params.f /\ Truthy(params.f.is_set)
             THEN PyDict([key \in DOMAIN params.f |->
                      IF key = "val" THEN PySet(params.f.val.items)
                      ELSE params.f[key]])
             ELSE params)

(***************************************************************************)
(* TypeRegistry.type_of, ListType, DictType and assign                     *)
(***************************************************************************)
\* TypeRegistry.types_by_class() after the module's TypeRegistry.add calls:
\* the name of the Type registered for a class, "" for none
TypesByClass(cls) ==
    IF cls = "NoneType" THEN "none"
    ELSE IF cls = "str" THEN "text"
    ELSE IF cls \in {"int", "float"} THEN "number"
    ELSE IF cls = "bool" THEN "boolean"
    ELSE IF cls \in SeqClasses THEN "list"
    ELSE IF cls = "dict" THEN "dictionary"
    ELSE ""

\* the value of the first key, in iteration order, whose value is a raised
\* exception; PyNone when there is none
FirstRaise(d) ==
    LET keys == KeysOf(d)
        bad == {i \in 1..Len(keys) : IsRaise(d.f[keys[i]])}
    IN  IF bad = {} THEN PyNone
        ELSE d.f[keys[CHOOSE i \in bad : \A j \in bad : i <= j]]

\* a dict built by a comprehension: the first exception raised while
\* building it propagates
DictOrRaise(d) == IF FirstRaise(d) # PyNone THEN FirstRaise(d) ELSE d

KeyPolicyEXACT == PyStr("E")

KeyPolicySUBSET == PyStr("S")

KeyPolicyUNRESTRICTED == PyStr("U")

RECURSIVE TypeOf(_)
RECURSIVE Assign(_, _)
RECURSIVE ListInit(_, _, _)
RECURSIVE ListInitFold(_, _, _)
RECURSIVE DictInit(_, _, _, _)
RECURSIVE DictDtypeEntry(_, _)
RECURSIVE ListNotation(_, _)
RECURSIVE UnionScan(_, _, _, _)
RECURSIVE ListAssignFold(_, _, _)
RECURSIVE DictAssignKnown(_, _, _, _, _, _)
RECURSIVE DictAssignUnknown(_, _, _, _, _)

TypeOf(py_obj) ==
    LET class_handler == TypesByClass(py_obj.k)
    IN  IF class_handler = "list" THEN ListInit(py_obj, PyNone, PyNone)
        ELSE IF class_handler = "dictionary"
            THEN DictInit(py_obj, KeyPolicyEXACT, PyNone, PyNone)
        ELSE IF class_handler # "" THEN TypeInit(class_handler, PyNone)
        ELSE ObjectInit(py_obj, PyNone)

\* one turn of the loop of ListType.__init__, given what elm_type.assign(item)
\* gave
ListInitStep(py_list, i, elm) ==
    IF IsRaise(elm) THEN elm
    ELSE IF elm = NeverType THEN Raise("TypeError")
    ELSE ListInitFold(py_list, i + 1, elm)

ListInitFold(py_list, i, elm_type) ==
    IF i > Len(py_list) THEN elm_type
    ELSE ListInitStep(py_list, i, Assign(elm_type, py_list[i]))

\* params = {"element_type": elm_type} after the loop
ListInitParams(elm_type) ==
    IF IsRaise(elm_type) THEN elm_type
    ELSE TypeInit("list", PyDict([element_type |-> elm_type]))

ListInit(py_obj, dtype, params) ==
    IF ~(py_obj = PyNone \/ py_obj.k \in SeqClasses)
        THEN Raise("AssertionError")
    ELSE IF ~(params = PyNone
              \/ (/\ params.k = "dict"
                  /\ "element_type" \in DOMAIN params.f
                  /\ IsType(params.f.element_type)))
        THEN Raise("AssertionError")
    ELSE IF ~(dtype = PyNone \/ IsType(dtype)) THEN Raise("AssertionError")
    ELSE IF params # PyNone THEN TypeInit("list", params)
    ELSE IF dtype # PyNone
        THEN TypeInit("list", PyDict([element_type |-> dtype]))
    ELSE IF py_obj = PyNone
        THEN TypeInit("list", PyDict([element_type |-> UnknownType]))
    ELSE ListInitParams(
             ListInitFold(py_obj.items, 1,
                 IF PyNone \notin Range(py_obj.items) THEN UnknownType
                 ELSE OptionalType(UnknownType)))

\* inner_type = ListType(dtype=inner_type), once per level of nesting
ListNotationWrap(inner_type) ==
    IF IsRaise(inner_type) THEN inner_type
    ELSE ListInit(PyNone, inner_type, PyNone)

ListNotation(ptr, key_policy) ==
    IF ptr.k = "list" /\ Len(ptr.items) > 0
    THEN IF Len(ptr.items) > 1 THEN Raise("TypeError")
         ELSE ListNotationWrap(ListNotation(ptr.items[1], key_policy))
    ELSE IF ptr.k = "list" THEN ListInit(PyNone, PyNone, PyNone)
    ELSE IF ptr.k = "dict" THEN DictInit(PyNone, key_policy, ptr, PyNone)
    ELSE IF IsType(ptr) THEN ptr
    ELSE Raise("TypeError")

DictDtypeEntry(value, key_policy) ==
    IF value.k = "dict" THEN DictInit(PyNone, key_policy, value, PyNone)
    ELSE IF value.k = "list" THEN ListNotation(value, key_policy)
    ELSE IF IsType(value) THEN value
    ELSE Raise("TypeError")

\* params = {"type_map": type_map, "policy": key_policy}
DictInitParams(type_map, key_policy) ==
    IF IsRaise(type_map) THEN type_map
    ELSE TypeInit("dictionary",
             PyDict([type_map |-> type_map, policy |-> key_policy]))

DictInit(py_obj, key_policy, dtype, params) ==
    IF params # PyNone THEN TypeInit("dictionary", params)
    ELSE IF dtype # PyNone
        THEN DictInitParams(
                 DictOrRaise(PyDict([key \in DOMAIN dtype.f |->
                                 DictDtypeEntry(dtype.f[key], key_policy)])),
                 key_policy)
    ELSE IF py_obj # PyNone
        THEN DictInitParams(
                 DictOrRaise(PyDict([key \in DOMAIN py_obj.f |->
                                 TypeOf(py_obj.f[key])])),
                 key_policy)
    ELSE DictInitParams(PyDict(EmptyMap), key_policy)

\* the turn that never records that a member accepted the value
UnionScanStepNoValid(allowed_types, i, py_obj, st, assigned_type) ==
    IF IsRaise(assigned_type) THEN assigned_type
    ELSE IF TypeEq(assigned_type, NeverType)
    THEN UnionScan(allowed_types, i + 1, py_obj,
             [st EXCEPT !.resolved_types = Append(@, allowed_types[i])])
    ELSE UnionScan(allowed_types, i + 1, py_obj,
             [st EXCEPT !.resolved_types = Append(@, assigned_type)])

\* one turn of the loop of UnionType.assign, given what
\* allowed_type.assign(py_obj) gave
UnionScanStep(allowed_types, i, py_obj, st, assigned_type) ==
    IF IsRaise(assigned_type) THEN assigned_type
    ELSE IF TypeEq(assigned_type, NeverType)
    THEN UnionScan(allowed_types, i + 1, py_obj,
             [st EXCEPT !.resolved_types = Append(@, allowed_types[i])])
    ELSE UnionScan(allowed_types, i + 1, py_obj,
             [st EXCEPT !.resolved_types = Append(@, assigned_type),
                        !.valid = TRUE])

\* the loop of UnionType.assign over allowed_types[i..]; st holds
\* resolved_types, valid and unknown_count
UnionScan(allowed_types, i, py_obj, st) ==
    IF i > Len(allowed_types) THEN st
    ELSE IF st.valid
    THEN UnionScan(allowed_types, i + 1, py_obj,
             [st EXCEPT !.resolved_types = Append(@, allowed_types[i])])
    ELSE IF allowed_types[i].name = "unknown"
    THEN UnionScan(allowed_types, i + 1, py_obj,
             [st EXCEPT !.unknown_count = @ + 1])
    ELSE UnionScanStep(allowed_types, i, py_obj, st,
             Assign(allowed_types[i], py_obj))

UnknownAssign(py_obj) == IF py_obj = PyNone THEN NeverType ELSE TypeOf(py_obj)

\* the end of UnionType.assign: the Unknown left are appended, the types
\* flattened and sorted, and a new UnionType is built
UnionFinish(resolved_types, unknown_count) ==
    UnionInit(PyList(SortByStr(FlattenTypes(
                  resolved_types \o [j \in 1..unknown_count |-> UnknownType]))),
              PyNone)

\* no member accepted and an Unknown is held: new_type is what
\* UnknownType.assign(py_obj) gave
UnionAbsorb(st, new_type) ==
    IF IsRaise(new_type) THEN new_type
    ELSE IF TypeEq(new_type, NeverType) THEN NeverType
    ELSE UnionFinish(Append(st.resolved_types, new_type), st.unknown_count - 1)

\* UnionType.assign after its loop
UnionResolve(st, py_obj) ==
    IF IsRaise(st) THEN st
    ELSE IF st.valid THEN UnionFinish(st.resolved_types, st.unknown_count)
    ELSE IF st.unknown_count = 0 THEN NeverType
    ELSE UnionAbsorb(st, UnknownAssign(py_obj))

UnionAssign(self, py_obj) ==
    UnionResolve(
        UnionScan(IF "allowed_types" \in DOMAIN self.params.f
                  THEN self.params.f.allowed_types.items ELSE <<>>,
                  1, py_obj,
                  [k |-> "scan", resolved_types |-> <<>>, valid |-> FALSE,
                   unknown_count |-> 0]),
        py_obj)

\* one turn of the loop of ListType.assign, given what
\* new_element_type.assign(obj) gave
ListAssignStep(py_list, i, elm) ==
    IF IsRaise(elm) THEN elm
    ELSE IF TypeEq(elm, NeverType) THEN NeverType
    ELSE ListAssignFold(py_list, i + 1, elm)

ListAssignFold(py_list, i, new_element_type) ==
    IF i > Len(py_list) THEN ListInit(PyNone, new_element_type, PyNone)
    ELSE ListAssignStep(py_list, i, Assign(new_element_type, py_list[i]))

ListAssign(self, py_obj) ==
    IF py_obj = PyNone \/ py_obj.k \notin SeqClasses THEN NeverType
    ELSE IF "element_type" \notin DOMAIN self.params.f THEN Raise("KeyError")
    ELSE ListAssignFold(py_obj.items, 1, self.params.f.element_type)

\* one turn of the first loop of DictType.assign, given what
\* type_map[key].assign gave
DictAssignKnownStep(type_map, keys, i, py_obj, policy, new_type_map, new_type) ==
    IF IsRaise(new_type) THEN new_type
    ELSE IF keys[i] \in DOMAIN py_obj.f
    THEN IF TypeEq(new_type, NeverType) THEN NeverType
         ELSE DictAssignKnown(type_map, keys, i + 1, py_obj, policy,
                  new_type_map @@ (keys[i] :> new_type))
    ELSE IF TypeEq(new_type, NeverType)
    THEN IF policy = KeyPolicyEXACT THEN NeverType
         ELSE IF policy \in {KeyPolicySUBSET, KeyPolicyUNRESTRICTED}
         THEN DictAssignKnown(type_map, keys, i + 1, py_obj, policy,
                  new_type_map @@ (keys[i] :> type_map.f[keys[i]]))
         ELSE DictAssignKnown(type_map, keys, i + 1, py_obj, policy,
                  new_type_map)
    ELSE DictAssignKnown(type_map, keys, i + 1, py_obj, policy,
             new_type_map @@ (keys[i] :> new_type))

\* the first loop of DictType.assign, over the keys of type_map; the result
\* is new_type_map (a dict) or what the loop returns early
DictAssignKnown(type_map, keys, i, py_obj, policy, new_type_map) ==
    IF i > Len(keys) THEN PyDict(new_type_map)
    ELSE DictAssignKnownStep(type_map, keys, i, py_obj, policy, new_type_map,
             Assign(type_map.f[keys[i]],
                    IF keys[i] \in DOMAIN py_obj.f THEN py_obj.f[keys[i]]
                    ELSE PyNone))

\* one turn of the second loop, given the Type built for the unknown key
DictAssignUnknownStep(keys, i, py_obj, policy, new_type_map, new_type) ==
    IF IsRaise(new_type) THEN new_type
    ELSE DictAssignUnknown(keys, i + 1, py_obj, policy,
             new_type_map @@ (keys[i] :> new_type))

\* the second loop of DictType.assign, over the keys of py_obj
DictAssignUnknown(keys, i, py_obj, policy, new_type_map) ==
    IF i > Len(keys) THEN PyDict(new_type_map)
    ELSE IF keys[i] \in DOMAIN new_type_map
    THEN DictAssignUnknown(keys, i + 1, py_obj, policy, new_type_map)
    ELSE IF policy \in {KeyPolicyEXACT, KeyPolicySUBSET} THEN NeverType
    ELSE IF policy = KeyPolicyUNRESTRICTED
    THEN DictAssignUnknownStep(keys, i, py_obj, policy, new_type_map,
             IF py_obj.f[keys[i]].k = "dict"
             THEN DictInit(py_obj.f[keys[i]], policy, PyNone, PyNone)
             ELSE TypeOf(py_obj.f[keys[i]]))
    ELSE DictAssignUnknown(keys, i + 1, py_obj, policy, new_type_map)

\* return DictType(dtype=new_type_map, key_policy=policy), unless a loop
\* returned NeverType or raised
DictAssignReturn(new_type_map, policy) ==
    IF new_type_map.k # "dict" THEN new_type_map
    ELSE DictInit(PyNone, policy, new_type_map, PyNone)

\* the second loop, unless the first returned NeverType or raised
DictAssignRest(known, py_obj, policy) ==
    IF known.k # "dict" THEN known
    ELSE DictAssignReturn(
             DictAssignUnknown(KeysOf(py_obj), 1, py_obj, policy, known.f),
             policy)

\* DictType.assign with type_map and policy read from self.params
DictAssignLoops(type_map, policy, py_obj) ==
    DictAssignRest(
        DictAssignKnown(type_map, KeysOf(type_map), 1, py_obj, policy, EmptyMap),
        py_obj, policy)

DictAssign(self, py_obj) ==
    IF py_obj = PyNone \/ py_obj.k # "dict" THEN NeverType
    ELSE DictAssignLoops(
             IF "type_map" \in DOMAIN self.params.f
             THEN self.params.f.type_map ELSE PyDict(EmptyMap),
             IF "policy" \in DOMAIN self.params.f
             THEN self.params.f.policy ELSE KeyPolicyEXACT,
             py_obj)

ConstAssign(self, py_obj) ==
    LET valid == PyEq(IF "val" \in DOMAIN self.params.f THEN self.params.f.val
                      ELSE PyNone, py_obj)
    IN  IF valid THEN self ELSE NeverType

ObjectAssign(self, py_obj) ==
    IF "class_name" \notin DOMAIN self.params.f THEN Raise("KeyError")
    ELSE IF PyEq(PyStr(py_obj.k), self.params.f.class_name) THEN self
    ELSE NeverType

\* a Never that infers a Type from the value, as Unknown does
NeverAssignInfers(self, py_obj) == UnknownAssign(py_obj)

NeverAssign(self, py_obj) == self

Assign(self, py_obj) ==
    IF ~IsType(self) THEN Raise("AttributeError")
    ELSE IF self.name = "never" THEN NeverAssign(self, py_obj)
    ELSE IF self.name = "any" THEN IF py_obj # PyNone THEN self ELSE NeverType
    ELSE IF self.name = "unknown" THEN UnknownAssign(py_obj)
    ELSE IF self.name = "none" THEN IF py_obj = PyNone THEN self ELSE NeverType
    ELSE IF self.name = "text" THEN IF py_obj.k = "str" THEN self ELSE NeverType
    ELSE IF self.name = "number"
        THEN IF py_obj.k \in {"int", "float"} THEN self ELSE NeverType
    ELSE IF self.name = "boolean"
        THEN IF py_obj.k = "bool" THEN self ELSE NeverType
    ELSE IF self.name = "union" THEN UnionAssign(self, py_obj)
    ELSE IF self.name = "object" THEN ObjectAssign(self, py_obj)
    ELSE IF self.name = "list" THEN ListAssign(self, py_obj)
    ELSE IF self.name = "dictionary" THEN DictAssign(self, py_obj)
    ELSE ConstAssign(self, py_obj)

(***************************************************************************)
(* TypeRegistry.type_from_dict and Type.from_json                          *)
(***************************************************************************)
\* TypeRegistry.types_by_name() after the module's TypeRegistry.add calls
TypesByName == {"never", "any", "unknown", "none", "text", "number",
                "boolean", "list", "dictionary", "union", "object", "const"}

\* the first raised exception among items, PyNone when there is none
FirstRaiseItem(items) ==
    LET bad == {i \in 1..Len(items) : IsRaise(items[i])}
    IN  IF bad = {} THEN PyNone
        ELSE items[CHOOSE i \in bad : \A j \in bad : i <= j]

\* a list built by a comprehension: the first exception raised while
\* building it propagates
ItemsOrRaise(items) ==
    IF FirstRaiseItem(items) # PyNone THEN FirstRaiseItem(items)
    ELSE PyList(items)

RECURSIVE TypeFromDict(_)
RECURSIVE JsonObjToParamsObj(_)

JsonObjToParamsObj(json_obj) ==
    IF json_obj.k = "dict"
    THEN IF "wb_type" \in DOMAIN json_obj.f THEN TypeFromDict(json_obj)
         ELSE DictOrRaise(PyDict([key \in DOMAIN json_obj.f |->
                                      JsonObjToParamsObj(json_obj.f[key])]))
    ELSE IF json_obj.k = "list"
    THEN ItemsOrRaise([i \in DOMAIN json_obj.items |->
                           JsonObjToParamsObj(json_obj.items[i])])
    ELSE json_obj

\* cls(params=params) for the class registered under name cls
FromParams(cls, params) ==
    IF IsRaise(params) THEN params
    ELSE IF cls = "union" THEN UnionInit(PyNone, params)
    ELSE IF cls = "object" THEN ObjectInit(PyNone, params)
    ELSE IF cls = "list" THEN ListInit(PyNone, PyNone, params)
    ELSE IF cls = "dictionary"
        THEN DictInit(PyNone, KeyPolicyEXACT, PyNone, params)
    ELSE IF cls = "const" THEN ConstInit(PyNone, params)
    ELSE TypeInit(cls, params)

\* cls.from_json(json_dict) for the class registered under name cls
FromJson(cls, json_dict) ==
    FromParams(cls,
        JsonObjToParamsObj(
            IF "params" \in DOMAIN json_dict.f THEN json_dict.f.params
            ELSE PyDict(EmptyMap)))

\* the TypeError objects of lines 53 and 56 are built and dropped; the call
\* of from_json on the None that types_by_name().get returns is what raises
TypeFromDict(json_dict) ==
    LET wb_type == IF "wb_type" \in DOMAIN json_dict.f THEN json_dict.f.wb_type
                   ELSE PyNone
    IN  IF wb_type.k \in {"dict", "list", "set"} THEN Raise("TypeError")
        ELSE IF wb_type.k = "str" /\ wb_type.s \in TypesByName
            THEN FromJson(wb_type.s, json_dict)
        ELSE Raise("AttributeError")

(***************************************************************************)
(* Inputs                                                                  *)
(***************************************************************************)
SeqsUpTo(S, n) == UNION {[1..m -> S] : m \in 0..n}

Scalars == {PyNone, PyInt(1), PyStr("a"), PyBool(TRUE), PyObj("Foo")}

ListElems == {PyInt(1), PyStr("a")}

FlatLists == {PyList(items) : items \in SeqsUpTo(ListElems, MaxLen)}
             \cup {PyList(<<PyNone>>), PyList(<<PyInt(1), PyNone>>)}

OtherSeqs == {PyTuple(<<PyInt(1)>>), PySet(<<PyInt(1)>>)}

MixedList == PyList(<<PyInt(1), PyStr("a")>>)

NestedLists ==
    {PyList(<<MixedList>>),
     PyList(<<PyList(<<PyInt(1)>>), PyList(<<>>)>>),
     PyList(<<PyDict([a |-> PyInt(1)]), PyDict(EmptyMap)>>)}

NestedDict == PyDict([a |-> PyDict(EmptyMap)])

Dicts ==
    {PyDict(EmptyMap), PyDict([b |-> PyInt(1)])}
    \cup {PyDict([a |-> x]) :
              x \in {PyNone, PyInt(1), PyStr("a"), MixedList, NestedDict}}
    \cup {PyDict([a |-> x, b |-> y]) :
              x \in {PyInt(1), MixedList}, y \in {PyInt(1), PyStr("a")}}
    \cup {PyDict([a |-> NestedDict, b |-> PyInt(1)])}

Values == Scalars \cup FlatLists \cup OtherSeqs \cup NestedLists \cup Dicts

Policies == {KeyPolicyEXACT, KeyPolicySUBSET, KeyPolicyUNRESTRICTED}

Singletons == {NeverType, AnyType, UnknownType, NoneType, TextType,
               NumberType, BooleanType}

\* the Types a DictType is built around
DictMembers == {UnknownType, NumberType, NoneType, OptionalType(NumberType)}

\* the (dtype, key_policy) arguments of DictType built around a Type t
DictArgs(t) ==
    ({PyDict(EmptyMap), PyDict([a |-> t]), PyDict([a |-> t, b |-> NumberType]),
      PyDict([a |-> UnknownType, b |-> t])} \X Policies)
    \cup ({PyDict([wb_type |-> t]), PyDict([a |-> PyList(<<t>>)]),
          PyDict([a |-> PyDict([b |-> t])]), PyDict([a |-> PyList(<<t, t>>)]),
          PyDict([a |-> PyInt(1)])} \X {KeyPolicySUBSET})

\* the members a UnionType is built from
UnionMembers == {UnknownType, NumberType, TextType,
                 ListInit(PyNone, PyNone, PyNone),
                 ListInit(PyNone, TextType, PyNone)}

MaxUnion == 2

\* the py_obj arguments of UnionType: lists of members, and one that holds
\* the ObjectType of a list
UnionArgs ==
    SeqsUpTo(UnionMembers, MaxUnion)
    \cup {<<ListInit(PyNone, PyNone, PyNone), ObjectInit(PyList(<<>>), PyNone)>>}

ConstArgs == {PyInt(0), PyInt(1), PyBool(FALSE), PyBool(TRUE), PyStr(""),
              PyStr("a"), PySet(<<PyInt(1)>>), PyNone, PyList(<<PyInt(1)>>)}

\* JSON objects that carry no usable discriminant
BadJson == {PyDict(EmptyMap), PyDict([x |-> PyInt(1)]),
            PyDict([wb_type |-> PyStr("bogus")]),
            PyDict([wb_type |-> PyStr("bogus"), params |-> PyDict(EmptyMap)])}

JList(e) == PyDict([wb_type |-> PyStr("list"),
                    params |-> PyDict([element_type |-> e])])

JUnion(items) == PyDict([wb_type |-> PyStr("union"),
                         params |-> PyDict([allowed_types |-> PyList(items)])])

JDict(key, e) ==
    PyDict([wb_type |-> PyStr("dictionary"),
            params |-> PyDict([type_map |-> PyDict(key :> e),
                               policy |-> KeyPolicyEXACT])])

JText == PyDict([wb_type |-> PyStr("text")])

\* the same objects nested in the params of a list, union or dictionary
NestedBadJson ==
    UNION {{JList(j), JUnion(<<j>>), JUnion(<<JText, j>>), JDict("a", j),
            JList(JList(j)), JList(JDict("a", j))} : j \in BadJson}

JNumber == PyDict([wb_type |-> PyStr("number")])

\* unions written out of order, and with a union among their members
JUnions == {JUnion(<<JText, JNumber>>),
            JUnion(<<JUnion(<<JText, JNumber>>), JList(JText)>>),
            JList(JUnion(<<JText, JUnion(<<JNumber>>)>>))}

DecodeArgs == BadJson \cup NestedBadJson \cup JUnions
              \cup {JText, JList(JText), JUnion(<<JText>>), JDict("a", JText)}

(***************************************************************************)
(* The client: it first obtains a Type (a singleton, a constructor call,   *)
(* type_of or type_from_dict) and then works on the Type it holds.  cur is *)
(* the outcome of its last call (a Type, or a raised exception), op the    *)
(* name, recv the receiver and arg the argument of that call.              *)
(***************************************************************************)
NoClient ==
    /\ steps = 0
    /\ op = "start"
    /\ recv = PyNone
    /\ arg = PyNone
    /\ cur = PyNone

(* No UploadJob has been constructed. *)
NoUploadJob ==
    /\ job = PyNone
    /\ isfile = FALSE
    /\ pc = "none"
    /\ size = 0
    /\ upload_url = PyNone
    /\ pushed = "none"
    /\ success = FALSE
    /\ raised = "none"
    /\ stats = <<>>
    /\ done_queue = <<>>

Init ==
    /\ NoClient
    /\ NoUploadJob

Call(name, self, py_obj, result) ==
    /\ steps < MaxSteps
    /\ steps' = steps + 1
    /\ op' = name
    /\ recv' = self
    /\ arg' = py_obj
    /\ cur' = result
    /\ UNCHANGED uvars

UseSingleton ==
    /\ op = "start"
    /\ \E t \in Singletons : Call("singleton", PyNone, PyNone, t)

NewListType ==
    \/ /\ op = "start"
       /\ \E t \in Singletons \cup {PyNone} :
              Call("ListType", PyNone, t, ListInit(PyNone, t, PyNone))
    \/ /\ IsType(cur)
       /\ Call("ListType", PyNone, cur, ListInit(PyNone, cur, PyNone))

NewDictType ==
    /\ op = "start"
    /\ \E t \in DictMembers : \E a \in DictArgs(t) :
           Call("DictType", PyNone, PyTuple(a), DictInit(PyNone, a[2], a[1], PyNone))

NewUnionType ==
    /\ op = "start"
    /\ \E ms \in UnionArgs :
           Call("UnionType", PyNone, PyList(ms), UnionInit(PyList(ms), PyNone))

NewOptionalType ==
    /\ IsType(cur)
    /\ Call("UnionType", PyNone, PyList(<<cur, NoneType>>), OptionalType(cur))

NewConstType ==
    /\ op = "start"
    /\ \E v \in ConstArgs : Call("ConstType", PyNone, v, ConstInit(v, PyNone))

TypeOfCall ==
    /\ op = "start"
    /\ \E v \in Values : Call("type_of", PyNone, v, TypeOf(v))

Decode ==
    /\ op = "start"
    /\ \E j \in DecodeArgs : Call("type_from_dict", PyNone, j, TypeFromDict(j))

AssignCall ==
    /\ IsType(cur)
    /\ \E v \in Values : Call("assign", cur, v, Assign(cur, v))

\* to_json, then TypeRegistry.type_from_dict on its output
RoundTrip ==
    /\ IsType(cur)
    /\ Call("from_json", cur, ToJson(cur), TypeFromDict(ToJson(cur)))

Next ==
    \/ UseSingleton
    \/ NewListType
    \/ NewDictType
    \/ NewUnionType
    \/ NewOptionalType
    \/ NewConstType
    \/ TypeOfCall
    \/ Decode
    \/ AssignCall
    \/ RoundTrip

Spec == Init /\ [][Next]_vars

(***************************************************************************)
(* wandb/filesync/upload_job.py: one UploadJob thread.  job holds the      *)
(* constructor arguments the control flow tests (copied, save_fn, md5);    *)
(* isfile is os.path.isfile(save_path); pc is the thread's position in     *)
(* run / push; pushed is how push ended ("none" while it has not, "True",  *)
(* "False", "raise"); raised is the exception leaving run; stats   *)
(* is the calls made on the stats object and done_queue the queue.  The    *)
(* file system, save_fn and the api are the environment: each of their     *)
(* calls returns or raises nondeterministically.                           *)
(***************************************************************************)
Jobs == [copied : BOOLEAN, save_fn : BOOLEAN, md5 : BOOLEAN]

EventJobDone(j, s) == [job |-> j, success |-> s]

UploadJobInit ==
    /\ job \in Jobs
    /\ isfile \in BOOLEAN
    /\ pc = "init"
    /\ size = 0
    /\ upload_url = PyNone
    /\ pushed = "none"
    /\ success = FALSE
    /\ raised = "none"
    /\ stats = <<>>
    /\ done_queue = <<>>

UploadInit ==
    /\ NoClient
    /\ UploadJobInit

(* push returns v: run assigns it to success and enters the finally block *)
PushReturns(v) ==
    /\ pushed' = (IF v THEN "True" ELSE "False")
    /\ success' = v
    /\ pc' = "finally"
    /\ UNCHANGED raised

(* push raises e: success keeps its value, the finally block runs with e   *)
(* in flight                                                               *)
PushRaises(e) ==
    /\ pushed' = "raise"
    /\ raised' = e
    /\ pc' = "finally"
    /\ UNCHANGED success

RunStart ==
    /\ pc = "init"
    /\ success' = FALSE
    /\ pc' = "getsize"
    /\ UNCHANGED <<dvars, job, isfile, size, upload_url, pushed, raised,
                   stats, done_queue>>

FileSizes == 0 .. 1

PushGetSize ==
    /\ pc = "getsize"
    /\ \E n \in FileSizes :
          size' = (IF isfile THEN n ELSE 0)
    /\ pc' = (IF job.save_fn THEN "save_fn"
              ELSE IF job.md5 THEN "prepare_files"
              ELSE "upload_urls")
    /\ UNCHANGED <<dvars, job, isfile, upload_url, pushed, success, raised,
                   stats, done_queue>>

SaveFnOutcomes == {"deduped", "uploaded", "Exception", "KeyboardInterrupt"}

PushSaveFn ==
    /\ pc = "save_fn"
    /\ \E o \in SaveFnOutcomes :
          \/ /\ o = "Exception"
             /\ stats' = Append(stats, <<"update_failed_file", "save_path">>)
             /\ PushReturns(FALSE)
          \/ /\ o = "KeyboardInterrupt"
             /\ stats' = stats
             /\ PushRaises(o)
          \/ /\ o = "deduped"
             /\ stats' = Append(stats, <<"set_file_deduped", "save_path">>)
             /\ PushReturns(TRUE)
          \/ /\ o = "uploaded"
             /\ stats' = Append(stats,
                                <<"update_uploaded_file", "save_path", size>>)
             /\ PushReturns(TRUE)
    /\ UNCHANGED <<dvars, job, isfile, size, upload_url, done_queue>>

UrlOutcomes == {PyNone, PyStr("/rel"), PyStr("https://u")}

ApiOutcomes == UrlOutcomes \cup {Raise("CommError"), Raise("KeyError")}

(* upload_url is bound; a None url is a deduplicated file *)
PushGotUrl(url) ==
    IF IsRaise(url)
    THEN /\ PushRaises(url.exc)
         /\ UNCHANGED <<upload_url, stats>>
    ELSE IF url = PyNone
    THEN /\ upload_url' = url
         /\ stats' = Append(stats, <<"set_file_deduped", "save_name">>)
         /\ PushReturns(TRUE)
    ELSE /\ upload_url' = url
         /\ pc' = "headers"
         /\ UNCHANGED <<pushed, success, raised, stats>>

PushPrepareFiles ==
    /\ pc = "prepare_files"
    /\ \E url \in ApiOutcomes : PushGotUrl(url)
    /\ UNCHANGED <<dvars, job, isfile, size, done_queue>>

PushUploadUrls ==
    /\ pc = "upload_urls"
    /\ \E url \in ApiOutcomes : PushGotUrl(url)
    /\ UNCHANGED <<dvars, job, isfile, size, done_queue>>

ApiUrl == "https://api"

PushHeaders ==
    /\ pc = "headers"
    /\ \E wellFormed \in BOOLEAN :
          IF wellFormed
          THEN /\ upload_url' =
                     (IF upload_url.s = "/rel"
                      THEN PyStr(ApiUrl \o upload_url.s) ELSE upload_url)
               /\ pc' = "upload"
               /\ UNCHANGED <<pushed, success, raised>>
          ELSE /\ PushRaises("ValueError")
               /\ UNCHANGED upload_url
    /\ UNCHANGED <<dvars, job, isfile, size, stats, done_queue>>

UploadOutcomes == {"ok", "progress", "Exception", "KeyboardInterrupt"}

PushUpload ==
    /\ pc = "upload"
    /\ \E o \in UploadOutcomes :
          \/ /\ o = "Exception" \/ (~isfile /\ o \in {"ok", "progress"})
             /\ stats' = Append(stats, <<"update_failed_file", "save_name">>)
             /\ PushReturns(FALSE)
          \/ /\ o = "KeyboardInterrupt"
             /\ stats' = stats
             /\ PushRaises(o)
          \/ /\ isfile /\ o = "ok"
             /\ stats' = stats
             /\ PushReturns(TRUE)
          \/ /\ isfile /\ o = "progress"
             /\ stats' = Append(stats,
                                <<"update_uploaded_file", "save_name", size>>)
             /\ PushReturns(TRUE)
    /\ UNCHANGED <<dvars, job, isfile, size, upload_url, done_queue>>

(* the finally block of run: the copied file is removed, and os.remove may *)
(* raise, which leaves the block before the put                            *)
RunCleanup ==
    /\ pc = "finally"
    /\ IF job.copied /\ isfile
       THEN \E removed \in BOOLEAN :
               IF removed
               THEN /\ isfile' = FALSE
                    /\ pc' = "put"
                    /\ UNCHANGED raised
               ELSE /\ raised' = "OSError"
                    /\ pc' = "done"
                    /\ UNCHANGED isfile
       ELSE /\ pc' = "put"
            /\ UNCHANGED <<isfile, raised>>
    /\ UNCHANGED <<dvars, job, size, upload_url, pushed, success,
                   stats, done_queue>>

RunPut ==
    /\ pc = "put"
    /\ done_queue' = Append(done_queue, EventJobDone(job, success))
    /\ pc' = "done"
    /\ UNCHANGED <<dvars, job, isfile, size, upload_url, pushed, success,
                   raised, stats>>

UploadNext ==
    \/ RunStart
    \/ PushGetSize
    \/ PushSaveFn
    \/ PushPrepareFiles
    \/ PushUploadUrls
    \/ PushHeaders
    \/ PushUpload
    \/ RunCleanup
    \/ RunPut

(* a started thread keeps running until run returns or raises *)
UploadSpec == UploadInit /\ [][UploadNext]_vars /\ WF_vars(UploadNext)

(***************************************************************************)
(* Properties                                                              *)
(***************************************************************************)
AllowedTypes(t) == t.params.f.allowed_types.items

TypeMap(t) == t.params.f.type_map.f

Policy(t) == t.params.f.policy

\* a Type all of whose nested members are Types (what the constructors,
\* type_of and assign build)
RECURSIVE WellFormed(_)
WellFormed(t) ==
    /\ IsType(t)
    /\ t.name = "list" => WellFormed(t.params.f.element_type)
    /\ t.name = "union" => \A i \in DOMAIN AllowedTypes(t) : WellFormed(AllowedTypes(t)[i])
    /\ t.name = "dictionary" => \A key \in DOMAIN TypeMap(t) : WellFormed(TypeMap(t)[key])

\* C1: assign on a Type built by the constructors, type_of or assign returns
\* a Type; it does not raise
AssignIsTotal == (op = "assign" /\ WellFormed(recv)) => IsType(cur)

\* C2: decoding the to_json output of a Type completes and gives a Type
\* equal to it
RoundTripHolds ==
    (op = "from_json" /\ WellFormed(recv)) => (IsType(cur) /\ TypeEq(cur, recv))

\* a Type that holds a ConstType, or a DictType with the key "wb_type"
RECURSIVE HasConstOrDiscriminantKey(_)
HasConstOrDiscriminantKey(t) ==
    \/ t.name = "const"
    \/ t.name = "list" /\ HasConstOrDiscriminantKey(t.params.f.element_type)
    \/ t.name = "union"
       /\ \E i \in DOMAIN AllowedTypes(t) : HasConstOrDiscriminantKey(AllowedTypes(t)[i])
    \/ t.name = "dictionary"
       /\ \/ "wb_type" \in DOMAIN TypeMap(t)
          \/ \E key \in DOMAIN TypeMap(t) : HasConstOrDiscriminantKey(TypeMap(t)[key])

\* the round trip of every other Type gives an equal Type
RoundTripOfOtherTypes ==
    (op = "from_json" /\ WellFormed(recv) /\ ~HasConstOrDiscriminantKey(recv))
        => (IsType(cur) /\ TypeEq(cur, recv))

\* C3: once assign has returned a Type for a value, assigning the same value
\* to that Type returns a Type equal to it
AssignIsIdempotent ==
    (op = "assign" /\ IsType(cur))
        => (IsType(Assign(cur, arg)) /\ TypeEq(Assign(cur, arg), cur))

\* an assign to a union narrowed one of its members and moved it to another
\* place of the sorted allowed_types, or consumed one of several Unknown
MovedMember ==
    /\ Len(AllowedTypes(recv)) = Len(AllowedTypes(cur))
    /\ \E i, j \in DOMAIN AllowedTypes(cur) :
           /\ i # j
           /\ AllowedTypes(recv)[j].name # "unknown"
           /\ AllowedTypes(recv)[j] \notin Range(AllowedTypes(cur))
           /\ AllowedTypes(cur)[i] \notin Range(AllowedTypes(recv))
           /\ AllowedTypes(cur)[i] = Assign(AllowedTypes(recv)[j], arg)

AssignIsIdempotentWitness ==
    /\ op = "assign"
    /\ IsType(recv) /\ recv.name = "union"
    /\ IsType(cur) /\ cur.name = "union"
    /\ cur # recv
    /\ MovedMember

\* the members of a union built from py_obj, taken in any other order
Reorderings(items) ==
    {[i \in DOMAIN items |-> items[p[i]]] : p \in Permutations(DOMAIN items)}

\* C4: a union built from the same members in another order is equal to it
UnionOrderInvariant ==
    (op = "UnionType" /\ IsType(cur))
        => \A ms \in Reorderings(arg.items) :
               LET other == UnionInit(PyList(ms), PyNone)
               IN  /\ TypeEq(cur, other)
                   /\ TypeEq(other, cur)
                   /\ PyEq(ToJson(cur), ToJson(other))

UnionOrderInvariantWitness ==
    /\ op = "UnionType"
    /\ IsType(cur)
    /\ Len(arg.items) = 2
    /\ ~TypeEq(arg.items[1], arg.items[2])
    /\ AllowedTypes(cur) = <<arg.items[2], arg.items[1]>>

\* C5: type_from_dict on a JSON object without a registered "wb_type", at
\* the top or nested in the params of a Type, raises
BadDiscriminantRaises ==
    (op = "type_from_dict" /\ arg \in BadJson \cup NestedBadJson) => IsRaise(cur)

\* at the top it does raise; nested, it does when it names an unregistered
\* kind
BadDiscriminantAtTopRaises ==
    (op = "type_from_dict"
     /\ arg \in BadJson
                \cup UNION {{JList(j), JUnion(<<j>>), JUnion(<<JText, j>>),
                             JDict("a", j), JList(JList(j)), JList(JDict("a", j))} :
                                j \in {b \in BadJson : "wb_type" \in DOMAIN b.f}})
        => IsRaise(cur)

\* C6: type_of returns a Type: the one registered for the value's class, or
\* an ObjectType of the class's name
TypeOfNeverFails ==
    op = "type_of"
        => /\ IsType(cur)
           /\ IF TypesByClass(arg.k) # "" THEN cur.name = TypesByClass(arg.k)
              ELSE cur = ObjectInit(arg, PyNone)

DictAssigned ==
    /\ op = "assign"
    /\ WellFormed(recv)
    /\ recv.name = "dictionary"
    /\ arg.k = "dict"

IsDictType(t) == IsType(t) /\ t.name = "dictionary"

UnknownKeys == DOMAIN arg.f \ DOMAIN TypeMap(recv)

\* C7: keys of the value that the DictType does not know: Never under EXACT
\* and SUBSET; under UNRESTRICTED the result keeps the known keys and maps
\* each such key to the Type inferred from its value
UnknownKeysFollowPolicy ==
    (DictAssigned /\ UnknownKeys # {})
        => /\ Policy(recv) \in {KeyPolicyEXACT, KeyPolicySUBSET} => cur = NeverType
           /\ Policy(recv) = KeyPolicyUNRESTRICTED
                  => \/ cur = NeverType
                     \/ /\ IsDictType(cur)
                        /\ DOMAIN TypeMap(cur) = DOMAIN TypeMap(recv) \cup DOMAIN arg.f
                        /\ \A key \in UnknownKeys :
                               IF arg.f[key].k = "dict"
                               THEN IsDictType(TypeMap(cur)[key])
                               ELSE TypeMap(cur)[key] = TypeOf(arg.f[key])

\* the same, of the calls that do not raise
UnknownKeysFollowPolicyUnlessRaised ==
    ~IsRaise(cur) => UnknownKeysFollowPolicy

\* C8: a known key absent from the value is narrowed against None; when that
\* gives Never, EXACT makes the result Never and the other policies keep the
\* key's Type; a known key present in the value whose narrowing gives Never
\* makes the result Never
KnownKeysFollowPolicy ==
    DictAssigned
        => /\ \A key \in DOMAIN TypeMap(recv) \ DOMAIN arg.f :
                  LET new_type == Assign(TypeMap(recv)[key], PyNone)
                  IN  /\ (new_type # NeverType /\ IsDictType(cur))
                             => TypeMap(cur)[key] = new_type
                      /\ (new_type = NeverType /\ Policy(recv) = KeyPolicyEXACT)
                             => cur = NeverType
                      /\ (new_type = NeverType /\ Policy(recv) # KeyPolicyEXACT
                          /\ IsDictType(cur))
                             => TypeMap(cur)[key] = TypeMap(recv)[key]
           /\ \A key \in DOMAIN TypeMap(recv) \cap DOMAIN arg.f :
                  Assign(TypeMap(recv)[key], arg.f[key]) = NeverType
                      => cur = NeverType

KnownKeysFollowPolicyUnlessRaised ==
    ~IsRaise(cur) => KnownKeysFollowPolicy

RECURSIVE AllPolicies(_, _)
AllPolicies(t, policy) ==
    /\ t.name = "list" => AllPolicies(t.params.f.element_type, policy)
    /\ t.name = "union"
           => \A i \in DOMAIN AllowedTypes(t) : AllPolicies(AllowedTypes(t)[i], policy)
    /\ t.name = "dictionary"
           => /\ Policy(t) = policy
              /\ \A key \in DOMAIN TypeMap(t) : AllPolicies(TypeMap(t)[key], policy)

\* C9: the DictType that assign returns has the receiver's policy, and the
\* DictType added for an unknown key of an UNRESTRICTED receiver is
\* UNRESTRICTED at every depth
PolicyPropagates ==
    (DictAssigned /\ IsDictType(cur))
        => /\ Policy(cur) = Policy(recv)
           /\ Policy(recv) = KeyPolicyUNRESTRICTED
                  => \A key \in UnknownKeys :
                         arg.f[key].k = "dict"
                             => AllPolicies(TypeMap(cur)[key], KeyPolicyUNRESTRICTED)

\* the policy of the result, and of the DictType added for an unknown key
PolicyOfResult ==
    (DictAssigned /\ IsDictType(cur))
        => /\ Policy(cur) = Policy(recv)
           /\ Policy(recv) = KeyPolicyUNRESTRICTED
                  => \A key \in UnknownKeys :
                         arg.f[key].k = "dict"
                             => Policy(TypeMap(cur)[key]) = KeyPolicyUNRESTRICTED

UnionAssigned ==
    /\ op = "assign"
    /\ WellFormed(recv)
    /\ recv.name = "union"

Unknowns(t) == {i \in DOMAIN AllowedTypes(t) : AllowedTypes(t)[i].name = "unknown"}

Known(t) == SelectSeq(AllowedTypes(t), LAMBDA m : m.name # "unknown")

SomeMemberAccepts ==
    \E i \in DOMAIN AllowedTypes(recv) \ Unknowns(recv) :
        LET assigned_type == Assign(AllowedTypes(recv)[i], arg)
        IN  IsType(assigned_type) /\ ~TypeEq(assigned_type, NeverType)

\* C10: a union none of whose known members accepts the value gives Never
\* when it holds no Unknown or the value is None, and otherwise the union of
\* its known members, the Type inferred from the value and one Unknown less;
\* when a known member accepts, the Unknown members are all kept
UnknownMembersAbsorb ==
    UnionAssigned
        => LET k == Cardinality(Unknowns(recv))
           IN  /\ (~SomeMemberAccepts /\ (k = 0 \/ arg = PyNone)) => cur = NeverType
               /\ (~SomeMemberAccepts /\ k >= 1 /\ arg # PyNone)
                      => /\ IsType(cur)
                         /\ IsType(TypeOf(arg))
                         /\ TypeEq(cur,
                                UnionInit(PyList(Known(recv) \o <<TypeOf(arg)>>
                                                 \o [j \in 1..(k - 1) |-> UnknownType]),
                                          PyNone))
               /\ SomeMemberAccepts
                      => (IsType(cur) /\ Cardinality(Unknowns(cur)) = k)

UnknownMembersAbsorbUnlessRaised ==
    ~IsRaise(cur) => UnknownMembersAbsorb

Accepts(t, v) == IsType(Assign(t, v)) /\ ~TypeEq(Assign(t, v), NeverType)

\* the known members of the receiver that accept the value
Accepting == {i \in DOMAIN AllowedTypes(recv) \ Unknowns(recv) :
                  Accepts(AllowedTypes(recv)[i], arg)}

\* the first of them in the order of allowed_types
Winner == CHOOSE i \in Accepting : \A j \in Accepting : i <= j

Count(seq, x) == Cardinality({i \in DOMAIN seq : seq[i] = x})

\* the same members, whatever their order
SameMembers(s, t) ==
    /\ Len(s) = Len(t)
    /\ \A x \in Range(s) \cup Range(t) : Count(s, x) = Count(t, x)

\* C11: when a known member of a union accepts the value, the result is a
\* union of as many members: the first accepting member narrowed, and every
\* other member of the receiver as it was
OnlyWinnerChanges ==
    (UnionAssigned /\ Accepting # {})
        => /\ IsType(cur)
           /\ cur.name = "union"
           /\ Len(AllowedTypes(cur)) = Len(AllowedTypes(recv))
           /\ SameMembers(AllowedTypes(cur),
                  [AllowedTypes(recv) EXCEPT
                       ![Winner] = Assign(AllowedTypes(recv)[Winner], arg)])

\* the same, of the calls that do not raise
OnlyWinnerChangesUnlessRaised ==
    ~IsRaise(cur) => OnlyWinnerChanges

ListAssigned ==
    /\ op = "assign"
    /\ WellFormed(recv)
    /\ recv.name = "list"

FoldStopped == [k |-> "stopped"]

\* the element Type folded with assign over items[i..]; FoldStopped as soon
\* as one step gives NeverType
RECURSIVE FoldFrom(_, _, _)
FoldFrom(t, items, i) ==
    IF i > Len(items) THEN t
    ELSE IF ~IsType(Assign(t, items[i])) THEN Assign(t, items[i])
    ELSE IF TypeEq(Assign(t, items[i]), NeverType) THEN FoldStopped
    ELSE FoldFrom(Assign(t, items[i]), items, i + 1)

\* C12: ListType.assign gives Never for None and for a value that is no
\* list, tuple, set or frozenset; otherwise Never when a step of the fold
\* over the elements gives Never, and else the ListType of the folded
\* element Type (the receiver itself for an empty sequence)
ListFollowsFold ==
    ListAssigned
        => IF arg = PyNone \/ arg.k \notin SeqClasses THEN cur = NeverType
           ELSE IF FoldFrom(recv.params.f.element_type, arg.items, 1) = FoldStopped
           THEN cur = NeverType
           ELSE /\ IsType(cur)
                /\ cur.name = "list"
                /\ cur.params.f.element_type
                       = FoldFrom(recv.params.f.element_type, arg.items, 1)
                /\ Len(arg.items) = 0 => TypeEq(cur, recv)

\* the same, of the calls that do not raise
ListFollowsFoldUnlessRaised ==
    ~IsRaise(cur) => ListFollowsFold

\* C13: assign on Never gives Never for every value; the receiver of an
\* assign that follows another is the result of that one, so after a result
\* Never every later result is Never
NeverAbsorbs ==
    (op = "assign" /\ IsType(recv) /\ TypeEq(recv, NeverType))
        => (IsType(cur) /\ TypeEq(cur, NeverType))

\* an assign gave Never and the next assign, of a list of lists, was made on
\* that result
NeverAbsorbsWitness ==
    /\ op = "assign"
    /\ steps = 3
    /\ recv = NeverType
    /\ cur = NeverType
    /\ arg = PyList(<<MixedList>>)

\* allowed_types holds no union and is in non-decreasing order of str
CanonicalMembers(items) ==
    /\ \A i \in DOMAIN items : ~(IsType(items[i]) /\ items[i].name = "union")
    /\ \A i \in 1..(Len(items) - 1) : ~LexLess(Repr(items[i + 1]), Repr(items[i]))

\* every union in x, at any depth, is in that form
RECURSIVE Canonical(_)
Canonical(x) ==
    IF IsType(x)
    THEN /\ x.name = "union" => CanonicalMembers(AllowedTypes(x))
         /\ Canonical(x.params)
    ELSE IF x.k = "dict" THEN \A key \in DOMAIN x.f : Canonical(x.f[key])
    ELSE IF x.k \in SeqClasses THEN \A i \in DOMAIN x.items : Canonical(x.items[i])
    ELSE TRUE

\* C14: in every Type that a constructor, type_of, type_from_dict or assign
\* returns, each union has allowed_types without a union member and sorted
\* by the members' str
UnionsAreCanonical == IsType(cur) => Canonical(cur)

\* a union decoded from JSON that lists a union first and its members out
\* of order
UnionsAreCanonicalWitness ==
    /\ op = "type_from_dict"
    /\ arg = JUnion(<<JUnion(<<JText, JNumber>>), JList(JText)>>)
    /\ IsType(cur)
    /\ AllowedTypes(cur) = <<ListInit(PyNone, TextType, PyNone), NumberType, TextType>>

(***************************************************************************)
(* C15: every execution of UploadJob.run puts exactly one                  *)
(* EventJobDone(job, success) on the done queue, whatever push does        *)
(* (returns True, returns False, or raises) and whether or not removing    *)
(* the copied file in the cleanup step fails; success is True only if push *)
(* returned True, and is False when push raised.  Stated on the state in   *)
(* which run has ended (pc = "done"), which every execution reaches        *)
(* (RunEnds); never more than one event is on the queue.                   *)
(***************************************************************************)
RunSignalsDone ==
    /\ Len(done_queue) <= 1
    /\ pc = "done" =>
          /\ Len(done_queue) = 1
          /\ done_queue[1].job = job
          /\ done_queue[1].success => pushed = "True"
          /\ pushed = "raise" => ~done_queue[1].success

(* run ends in every execution of a started thread *)
RunEnds == <>(pc = "done")

(* C15 holds in every execution in which os.remove does not raise *)
RunSignalsDoneUnlessRemoveRaised ==
    /\ Len(done_queue) <= 1
    /\ (pc = "done" /\ raised # "OSError") =>
          /\ Len(done_queue) = 1
          /\ done_queue[1] = EventJobDone(job, pushed = "True")

(* the execution that loses the event: os.remove raised in the finally     *)
(* block of a job whose push had returned True                             *)
RemoveRaisedNoEvent ==
    /\ pc = "done"
    /\ raised = "OSError"
    /\ pushed = "True"
    /\ done_queue = <<>>

====
